---- MODULE Spec2Model ----
(***************************************************************************)
(* odf-batch-styler: the two variants of the batch styler (src/styler.py   *)
(* and src/editor.py).  A BatchProcessor resolves a glob to a file list,   *)
(* and run() opens each file, applies the configured modifiers             *)
(* (StyleImporter, RegexStyler) to the in-memory document, merges their    *)
(* action logs into totals, saves to <stem><suffix><ext> and prints a      *)
(* summary.                                                                *)
(*                                                                         *)
(* Strings that the code takes apart (file names, paragraph text, regular  *)
(* expressions) are sequences of one-character strings.  The alphabet has  *)
(* no regex metacharacter, so a text used as a pattern (styler.py:73) is a *)
(* literal pattern.  A regular expression is one of                        *)
(*    [kind |-> "lit", s |-> t]   the literal t            (no group)      *)
(*    [kind |-> "grp", s |-> t]   t(.+)                    (one group)     *)
(*    [kind |-> "bad", s |-> t]   a pattern re.compile rejects             *)
(***************************************************************************)
EXTENDS Integers, Sequences, FiniteSets, TLC

\* ------------------------------------------------------------------ bounds
MaxFiles == 2      \* longest file list the glob resolves to
MaxMods == 2       \* longest modifier pipeline

\* ----------------------------------------------------------------- strings
Min(S) == CHOOSE x \in S : \A y \in S : x <= y

Max(S) == CHOOSE x \in S : \A y \in S : x >= y

\* str.rfind('.') as a 0-based index, -1 when there is no dot
RFindDot(name) ==
    LET dots == {k \in 1..Len(name) : name[k] = "."}
    IN IF dots = {} THEN -1 ELSE Max(dots) - 1

\* pathlib: the suffix is name[i:] when 0 < i < len(name) - 1, else empty
PathSuffix(name) ==
    LET i == RFindDot(name)
    IN IF 0 < i /\ i < Len(name) - 1 THEN SubSeq(name, i + 1, Len(name)) ELSE <<>>

PathStem(name) ==
    LET i == RFindDot(name)
    IN IF 0 < i /\ i < Len(name) - 1 THEN SubSeq(name, 1, i) ELSE name

\* output_path = path.parent / f"{path.stem}{output_suffix}{path.suffix}"
output_path_of(path, output_suffix) ==
    [parent |-> path.parent,
     name |-> PathStem(path.name) \o output_suffix \o PathSuffix(path.name)]

\* ------------------------------------------------------ regular expressions
NoMatch == [start |-> 0, end |-> 0, groups |-> 0, g1 |-> <<>>]

IsAt(s, text, k) ==
    /\ k + Len(s) - 1 <= Len(text)
    /\ \A n \in 1..Len(s) : text[k + n - 1] = s[n]

\* the match object of pat starting at k: t(.+) runs to the end of the text
\* and its group 1 is what follows t
MatchAt(pat, text, k) ==
    IF pat.kind = "grp"
    THEN [start |-> k, end |-> Len(text), groups |-> 1,
          g1 |-> SubSeq(text, k + Len(pat.s), Len(text))]
    ELSE [start |-> k, end |-> k + Len(pat.s) - 1, groups |-> 0, g1 |-> <<>>]

\* the match at the leftmost of the starts at, None when there is none
Leftmost(pat, text, at) ==
    IF at = {} THEN NoMatch ELSE MatchAt(pat, text, Min(at))

\* the leftmost match of pat in text at or after position from (1-based)
SearchFrom(pat, text, from) ==
    Leftmost(pat, text,
             {k \in from..Len(text) :
                 /\ IsAt(pat.s, text, k)
                 /\ k + Len(pat.s) + (IF pat.kind = "grp" THEN 1 ELSE 0) - 1
                        <= Len(text)})

\* re.search(pat, text)
Search(pat, text) == SearchFrom(pat, text, 1)

\* pattern.finditer(text) from position from: the matches left to right,
\* none overlapping
RECURSIVE FindIter(_, _, _)
RECURSIVE FindNext(_, _, _)
FindIter(pat, text, from) == FindNext(pat, text, SearchFrom(pat, text, from))

FindNext(pat, text, m) ==
    IF m = NoMatch THEN <<>> ELSE <<m>> \o FindIter(pat, text, m.end + 1)

\* --------------------------------------------------------------- documents
\* A paragraph is [style, nodes, spans]: its paragraph-level style, its text
\* nodes in document order, each [text, span] with span the styles of the
\* span elements enclosing it (outermost first), and the number of span
\* elements it holds.
RECURSIVE Concat(_)
Concat(nodes) ==
    IF nodes = <<>> THEN <<>> ELSE Head(nodes).text \o Concat(Tail(nodes))

\* para.text_recursive
text_recursive(para) == Concat(para.nodes)

\* element.match(content): re.search over the recursive text
para_match(para, pat) == Search(pat, text_recursive(para)) # NoMatch

\* a paragraph whose only content is the text
Stripped(para, text) ==
    [para EXCEPT
        !.nodes = IF text = <<>> THEN <<>> ELSE <<[text |-> text, span |-> <<>>]>>,
        !.spans = 0]

\* remove_tree(para, Span): the span elements go, their text stays
remove_tree(para) == Stripped(para, text_recursive(para))

\* the text node text[a..b] inside the spans sp; no node when it is empty
Piece(text, a, b, sp) ==
    IF a > b THEN <<>> ELSE <<[text |-> SubSeq(text, a, b), span |-> sp]>>

\* One text node cut at the matches ms: the text between matches keeps the
\* node's spans, each match gets one more span.
RECURSIVE Cut(_, _, _, _)
Cut(node, style, ms, from) ==
    IF ms = <<>> THEN Piece(node.text, from, Len(node.text), node.span)
    ELSE Piece(node.text, from, Head(ms).start - 1, node.span)
         \o Piece(node.text, Head(ms).start, Head(ms).end, Append(node.span, style))
         \o Cut(node, style, Tail(ms), Head(ms).end + 1)

\* set_span on one text node with matches ms, added to the result acc
SpanNode(node, style, ms, acc) ==
    [nodes |-> acc.nodes \o Cut(node, style, ms, 1),
     count |-> acc.count + Len(ms),
     texts |-> acc.texts
                 \cup {SubSeq(node.text, ms[k].start, ms[k].end) : k \in 1..Len(ms)}]

\* set_span over the text nodes of a paragraph: the regex is applied to each
\* text node on its own
RECURSIVE SpanNodes(_, _, _, _)
SpanNodes(nodes, pat, style, acc) ==
    IF nodes = <<>> THEN acc
    ELSE SpanNodes(Tail(nodes), pat, style,
                   SpanNode(Head(nodes), style, FindIter(pat, Head(nodes).text, 1), acc))

\* the paragraph with the new nodes, len(spans) and the texts of the spans
Spanned(para, r) ==
    [para |-> [para EXCEPT !.nodes = r.nodes, !.spans = @ + r.count],
     count |-> r.count,
     texts |-> r.texts]

\* para.set_span(style, regex=pat): every match inside one text node is
\* wrapped in a new span
set_span(para, style, pat) ==
    Spanned(para, SpanNodes(para.nodes, pat, style,
                            [nodes |-> <<>>, count |-> 0, texts |-> {}]))

\* a lookup that takes a style of any family
get_style_any(doc, style_name) ==
    \E family \in {"text", "paragraph"} : <<family, style_name>> \in doc.styles

\* doc.get_style(family='text', name_or_element=style_name) is truthy
get_style_text(doc, style_name) == <<"text", style_name>> \in doc.styles

\* ------------------------------------------------------------- action logs
\* A log entry is <<label, info>>.  An info is an int (a match count) or a
\* str (a status); isinstance(info, int) reads its kind.
IntInfo(n) == [kind |-> "int", n |-> n, s |-> ""]

StrInfo(s) == [kind |-> "str", n |-> 0, s |-> s]

\* an import logged under the label of the rule that applies the style
ImportLabelShared(v, family, style_name) == <<"Applied", style_name>>

\* f"Import {self.family} style: {self.style_name}" (styler.py) and
\* f"Import {self.family}: {self.style_name}" (editor.py), as their parts
ImportLabel(v, family, style_name) ==
    IF v = "styler" THEN <<"Import", family, "style", style_name>>
    ELSE <<"Import", family, style_name>>

\* f"Applied '{style_name}'"
AppliedLabel(style_name) == <<"Applied", style_name>>

\* ------------------------------------------------------------ StyleImporter
\* The reference documents by source_file: the styles get_style finds as
\* Style objects, and the names it resolves to an element of another type.
\* Document(source_file) raises for any other path.
SourceFiles ==
    [ref |-> [styles |-> {<<"text", "Bold">>, <<"paragraph", "Head">>},
              others |-> {<<"text", "Odd">>}]]

\* What an apply hands back: the document as it left it, the logs it
\* returned, whether it raised instead of returning, and, per paragraph it
\* worked on, the path it took.
Outcome(doc, logs, raised, trace) ==
    [doc |-> doc, logs |-> logs, raised |-> raised, trace |-> trace]

StyleImporter_apply(v, doc, mod) ==
    LET label == ImportLabel(v, mod.family, mod.style_name)
        key == <<mod.family, mod.style_name>>
    IN IF mod.source_file \notin DOMAIN SourceFiles
       THEN Outcome(doc, <<<<label, StrInfo("Error")>>>>, FALSE, <<>>)
       ELSE IF key \in SourceFiles[mod.source_file].styles
       THEN Outcome([doc EXCEPT !.styles = @ \cup {key}],
                    <<<<label, StrInfo("Success")>>>>, FALSE, <<>>)
       ELSE Outcome(doc, <<<<label, StrInfo("Not found in source")>>>>, FALSE, <<>>)

\* -------------------------------------------------------------- RegexStyler
\* get_paragraphs without its content filter
get_paragraphs_all(doc, pat) == [i \in 1..Len(doc.paras) |-> i]

\* body.get_paragraphs(content=regex): the indices of the paragraphs whose
\* recursive text the pattern matches, in document order
get_paragraphs(doc, pat) ==
    SelectSeq([i \in 1..Len(doc.paras) |-> i],
              LAMBDA i : para_match(doc.paras[i], pat))

\* The state of an apply loop is st = [paras, regex, count, raised, trace]:
\* the paragraphs, the pattern in use (self.regex in styler.py), match_count,
\* whether an exception left the loop, and what was done per paragraph.
LoopStart(doc, pat, trace) ==
    [paras |-> doc.paras, regex |-> pat, count |-> 0, raised |-> FALSE,
     trace |-> trace]

\* paragraph i done for rule k on the given path: r is what set_span
\* returned, or the styled paragraph counted once
StepDone(st, k, i, rx, path, style_name, r) ==
    [paras |-> [st.paras EXCEPT ![i] = r.para],
     regex |-> rx,
     count |-> st.count + r.count,
     raised |-> FALSE,
     trace |-> Append(st.trace,
                 [rule |-> k, para |-> i, path |-> path, style |-> style_name,
                  count |-> r.count, texts |-> r.texts, after |-> r.para])]

\* para.style = style_name; match_count += 1
Styled(para, style_name) ==
    [para |-> [para EXCEPT !.style = style_name], count |-> 1, texts |-> {}]

\* styler.py lines 76-77 with self.regex = rx
StylerSetSpan(style_name, st, i, rx) ==
    StepDone(st, 1, i, rx, "span", style_name, set_span(st.paras[i], style_name, rx))

\* styler.py lines 71-77: m is re.search(self.regex, para.text_recursive).
\* None has no .group (AttributeError, not caught); a match with a group
\* overwrites self.regex with the text of group 1; a match without one
\* raises IndexError, which is passed.
StylerSpan(style_name, st, i, m) ==
    IF m = NoMatch THEN [st EXCEPT !.raised = TRUE]
    ELSE StylerSetSpan(style_name, st, i,
                       IF m.groups >= 1 THEN [kind |-> "lit", s |-> m.g1]
                       ELSE st.regex)

\* styler.py, one turn of the loop of lines 67-83 on paragraph i
StylerStep(doc, style_name, st, i) ==
    IF get_style_text(doc, style_name)
    THEN StylerSpan(style_name, st, i, Search(st.regex, text_recursive(st.paras[i])))
    ELSE StepDone(st, 1, i, st.regex, "paragraph", style_name,
                  Styled(remove_tree(st.paras[i]), style_name))

RECURSIVE StylerLoop(_, _, _, _)
StylerLoop(doc, style_name, st, idx) ==
    IF idx = <<>> \/ st.raised THEN st
    ELSE StylerLoop(doc, style_name, StylerStep(doc, style_name, st, Head(idx)), Tail(idx))

\* styler.py line 85, or the exception that left the loop
StylerResult(doc, style_name, st) ==
    Outcome([doc EXCEPT !.paras = st.paras],
            IF st.raised THEN <<>>
            ELSE <<<<AppliedLabel(style_name), IntInfo(st.count)>>>>,
            st.raised, st.trace)

\* styler.py RegexStyler.apply: one rule per modifier; get_paragraphs
\* compiles the pattern and raises on a malformed one
RegexStyler_apply_styler(doc, mod) ==
    IF mod.rules[1].pattern.kind = "bad"
    THEN Outcome(doc, <<>>, TRUE, <<>>)
    ELSE StylerResult(doc, mod.rules[1].style_name,
                      StylerLoop(doc, mod.rules[1].style_name,
                                 LoopStart(doc, mod.rules[1].pattern, <<>>),
                                 get_paragraphs(doc, mod.rules[1].pattern)))

\* editor.py lines 72-80 on paragraph i, spans removed, for the k-th rule
EditorStyle(doc, rule, k, st, i, para) ==
    IF get_style_text(doc, rule.style_name)
    THEN StepDone(st, k, i, st.regex, "span", rule.style_name,
                  set_span(para, rule.style_name, rule.pattern))
    ELSE StepDone(st, k, i, st.regex, "paragraph", rule.style_name,
                  Styled(para, rule.style_name))

\* editor.py, one turn of the loop of lines 70-80 on paragraph i
EditorStep(doc, rule, k, st, i) ==
    EditorStyle(doc, rule, k, st, i, remove_tree(st.paras[i]))

RECURSIVE EditorLoop(_, _, _, _, _)
EditorLoop(doc, rule, k, st, idx) ==
    IF idx = <<>> THEN st
    ELSE EditorLoop(doc, rule, k, EditorStep(doc, rule, k, st, Head(idx)), Tail(idx))

\* editor.py line 82: results.append((f"Applied '{style_name}'", match_count))
EditorRuleDone(out, rule, st) ==
    Outcome([out.doc EXCEPT !.paras = st.paras],
            Append(out.logs, <<AppliedLabel(rule.style_name), IntInfo(st.count)>>),
            FALSE, st.trace)

\* editor.py RegexStyler.apply: the rules of the modifier in turn, one log
\* entry per rule; out is the Outcome so far, k the rule the loop is at
RECURSIVE EditorRules(_, _, _)
EditorRules(out, rules, k) ==
    IF k > Len(rules) \/ out.raised THEN out
    ELSE IF rules[k].pattern.kind = "bad"
    THEN Outcome(out.doc, <<>>, TRUE, out.trace)
    ELSE EditorRules(
             EditorRuleDone(out, rules[k],
                 EditorLoop(out.doc, rules[k], k,
                            LoopStart(out.doc, rules[k].pattern, out.trace),
                            get_paragraphs(out.doc, rules[k].pattern))),
             rules, k + 1)

RegexStyler_apply_editor(doc, mod) ==
    EditorRules(Outcome(doc, <<>>, FALSE, <<>>), mod.rules, 1)

\* modifier = mod_class(doc, **kwargs); logs = modifier.apply()
modifier_apply(v, doc, mod) ==
    IF mod.cls = "StyleImporter" THEN StyleImporter_apply(v, doc, mod)
    ELSE IF v = "styler" THEN RegexStyler_apply_styler(doc, mod)
    ELSE RegexStyler_apply_editor(doc, mod)

\* ---------------------------------------------------------- BatchProcessor
VARIABLES
    variant,            \* which source file runs: "styler" or "editor"
    files,              \* self.files, the glob resolved at construction
    dry_run,            \* self.dry_run
    modifier_configs,   \* self.modifier_configs
    output_suffix,      \* run's output_suffix (--suffix)
    totals,             \* self.totals: label -> accumulated info
    fs,                 \* the files on disk: path -> document
    pc,                 \* where run() is: "loop", "mods", "done", "aborted"
    i,                  \* index in files of the file the loop is at
    j,                  \* index of the next modifier for the open document
    doc,                \* the open document handle
    console,            \* what run() printed, in order
    opened,             \* the paths Document(file_path) was called on
    logged,             \* every log entry merged into totals, in order
    saved,              \* the paths doc.save wrote, in order
    last                \* the latest modifier.apply(): its modifier, its
                        \* place in the pipeline, the file, the document before
                        \* it, its Outcome and whether the merge of its logs
                        \* raised TypeError

vars == <<variant, files, dry_run, modifier_configs, output_suffix, totals, fs,
          pc, i, j, doc, console, opened, logged, saved, last>>

config == <<variant, files, dry_run, modifier_configs, output_suffix>>

Std == "Std"

Text(t) == <<[text |-> t, span |-> <<>>]>>

Para(t) == [style |-> Std, nodes |-> Text(t), spans |-> 0]

Path(name) == [parent |-> "d", name |-> name]

NoDoc == [ok |-> FALSE, styles |-> {}, paras |-> <<>>]

\* The directory before the run.  a.o has no text style; a_.o has the text
\* style Bold and is what a run with suffix "_" derives from a.o; x.o is no
\* readable ODF file.
InitialFS ==
    (Path(<<"a", ".", "o">>) :>
        [ok |-> TRUE, styles |-> {},
         paras |-> <<Para(<<"U", "a", "b">>), Para(<<"z", "z">>),
                     Para(<<"U", "c", "d">>)>>])
    @@ (Path(<<"a", "_", ".", "o">>) :>
        [ok |-> TRUE, styles |-> {<<"text", "Bold">>},
         paras |-> <<Para(<<"U", "a", "b">>), Para(<<"U", "x", "a", "b">>)>>])
    @@ (Path(<<"x", ".", "o">>) :> NoDoc)

Suffixes == {<<"_">>, <<>>}

Rule(style_name, kind, s) ==
    [style_name |-> style_name, pattern |-> [kind |-> kind, s |-> s]]

Importer(family, style_name, source_file) ==
    [cls |-> "StyleImporter", style_name |-> style_name, family |-> family,
     source_file |-> source_file, rules |-> <<>>]

Styler(rules) ==
    [cls |-> "RegexStyler", style_name |-> "", family |-> "", source_file |-> "",
     rules |-> rules]

\* The modifiers main() builds from the rule file.  styler.py adds one
\* RegexStyler per rule, editor.py one per rule list.
Modifiers(v) ==
    {Importer("text", "Bold", "ref"),
     Importer("text", "Bold", "gone"),
     Importer("text", "Odd", "ref"),
     Importer("paragraph", "Head", "ref"),
     Styler(<<Rule("Bold", "grp", <<"U">>)>>),
     Styler(<<Rule("Head", "lit", <<"a", "b">>)>>),
     Styler(<<Rule("Bold", "bad", <<>>)>>)}
    \cup IF v = "editor"
         THEN {Styler(<<Rule("Head", "lit", <<"a", "b">>),
                        Rule("Bold", "grp", <<"U">>)>>)}
         ELSE {}

SeqsUpTo(S, n) == UNION {[1..k -> S] : k \in 0..n}

Distinct(seq) == \A a, b \in 1..Len(seq) : a # b => seq[a] # seq[b]

EmptyTotals == [l \in {} |-> IntInfo(0)]

NoApply == [mod |-> Styler(<<>>), index |-> 0, file |-> 0, before |-> NoDoc,
            out |-> Outcome(NoDoc, <<>>, FALSE, <<>>), type_error |-> FALSE]

Init ==
    /\ variant \in {"styler", "editor"}
    /\ files \in {f \in SeqsUpTo(DOMAIN InitialFS, MaxFiles) : Distinct(f)}
    /\ dry_run \in BOOLEAN
    /\ modifier_configs \in SeqsUpTo(Modifiers(variant), MaxMods)
    /\ output_suffix \in Suffixes
    /\ totals = EmptyTotals
    /\ fs = InitialFS
    /\ pc = "loop"
    /\ i = 1
    /\ j = 1
    /\ doc = NoDoc
    /\ console = <<>>
    /\ opened = <<>>
    /\ logged = <<>>
    /\ saved = <<>>
    /\ last = NoApply

\* a merge that stores the latest count instead of adding it
MergeEntryOverwrite(v, t, entry) ==
    IF entry[2].kind = "int" \/ v = "styler"
    THEN [t EXCEPT !.totals = (entry[1] :> entry[2]) @@ @]
    ELSE t

\* lines 120-125 (styler.py), 119-122 (editor.py): one log entry merged into
\* totals.  t is [totals, raised]; adding an int to a stored str raises
\* TypeError.
MergeEntry(v, t, entry) ==
    LET label == entry[1]
        info == entry[2]
        old == IF label \in DOMAIN t.totals THEN t.totals[label] ELSE IntInfo(0)
    IN IF info.kind = "int"
       THEN IF old.kind = "int"
            THEN [t EXCEPT !.totals = (label :> IntInfo(old.n + info.n)) @@ @]
            ELSE [t EXCEPT !.raised = TRUE]
       ELSE IF v = "styler"
       THEN [t EXCEPT !.totals = (label :> info) @@ @]
       ELSE t

RECURSIVE MergeLogs(_, _, _)
MergeLogs(v, t, logs) ==
    IF logs = <<>> \/ t.raised THEN t
    ELSE MergeLogs(v, MergeEntry(v, t, Head(logs)), Tail(logs))

\* if not self.files: print("No files matched the pattern."); return
NoFiles ==
    /\ pc = "loop"
    /\ files = <<>>
    /\ console' = Append(console, <<"no files">>)
    /\ pc' = "done"
    /\ UNCHANGED <<config, totals, fs, i, j, doc, opened, logged, saved, last>>

\* editor.py lines 109-111: the dry run announces the file and continues
DryRunSkip ==
    /\ pc = "loop"
    /\ i <= Len(files)
    /\ variant = "editor"
    /\ dry_run
    /\ console' = Append(console, <<"dry run", files[i].name>>)
    /\ i' = i + 1
    /\ UNCHANGED <<config, totals, fs, pc, j, doc, opened, logged, saved, last>>

\* lines 107-115 of styler.py, 105-114 of editor.py past the dry-run test:
\* styler.py announces a dry run and goes on; Document(file_path) raises on
\* an unreadable file and nothing in run() catches it
OpenFile ==
    /\ pc = "loop"
    /\ i <= Len(files)
    /\ ~(variant = "editor" /\ dry_run)
    /\ opened' = Append(opened, files[i])
    /\ LET announce == IF dry_run
                       THEN Append(console, <<"dry run", files[i].name>>)
                       ELSE console
       IN IF fs[files[i]].ok
          THEN /\ doc' = fs[files[i]]
               /\ console' = Append(announce, <<"processing", files[i].name>>)
               /\ pc' = "mods"
               /\ j' = 1
          ELSE /\ console' = announce
               /\ pc' = "aborted"
               /\ UNCHANGED <<doc, j>>
    /\ UNCHANGED <<config, totals, fs, i, logged, saved, last>>

\* the logs of an apply that returned, merged: t is what MergeLogs gives
Merged(out, t) ==
    /\ last' = [mod |-> modifier_configs[j], index |-> j, file |-> i,
                before |-> doc, out |-> out, type_error |-> t.raised]
    /\ totals' = t.totals
    /\ logged' = logged \o out.logs
    /\ IF t.raised
       THEN pc' = "aborted" /\ UNCHANGED j
       ELSE pc' = pc /\ j' = j + 1

\* what run() does with the Outcome of modifier.apply()
Applied(out) ==
    /\ doc' = out.doc
    /\ IF out.raised
       THEN /\ last' = [mod |-> modifier_configs[j], index |-> j, file |-> i,
                        before |-> doc, out |-> out, type_error |-> FALSE]
            /\ pc' = "aborted"
            /\ UNCHANGED <<totals, logged, j>>
       ELSE Merged(out, MergeLogs(variant, [totals |-> totals, raised |-> FALSE],
                                  out.logs))

\* lines 117-125 of styler.py, 116-122 of editor.py: one modifier built,
\* applied, its logs merged.  An exception leaving apply() or the merge
\* leaves run().
ApplyModifier ==
    /\ pc = "mods"
    /\ j <= Len(modifier_configs)
    /\ Applied(modifier_apply(variant, doc, modifier_configs[j]))
    /\ UNCHANGED <<config, fs, i, console, opened, saved>>

\* a save that has lost its dry-run guard
ShouldSaveAlways(v, dry) == TRUE

\* whether run() reaches doc.save: styler.py guards it with
\* "if not self.dry_run"; in editor.py the dry run never gets there
ShouldSave(v, dry) == ~(v = "styler" /\ dry)

\* styler.py lines 127-130: save unless dry run, then the summary, every
\* file.  editor.py line 124: save.  doc.save can raise (the target cannot
\* be written) and nothing in run() catches it.
SaveFile ==
    /\ pc = "mods"
    /\ j > Len(modifier_configs)
    /\ LET target == output_path_of(files[i], output_suffix)
           saves == ShouldSave(variant, dry_run)
       IN \E writable \in BOOLEAN :
            IF saves /\ ~writable
            THEN /\ pc' = "aborted"
                 /\ UNCHANGED <<fs, saved, console, i>>
            ELSE /\ fs' = IF saves THEN (target :> doc) @@ fs ELSE fs
                 /\ saved' = IF saves THEN Append(saved, target) ELSE saved
                 /\ console' = IF variant = "styler"
                                THEN Append(console, <<"summary", totals, i>>)
                                ELSE console
                 /\ i' = i + 1
                 /\ pc' = "loop"
    /\ UNCHANGED <<config, totals, j, doc, opened, logged, last>>

\* the loop is over; editor.py lines 126-127 print the summary once, unless
\* dry run
Finish ==
    /\ pc = "loop"
    /\ files # <<>>
    /\ i > Len(files)
    /\ console' = IF variant = "editor" /\ ~dry_run
                   THEN Append(console, <<"summary", totals, Len(files)>>)
                   ELSE console
    /\ pc' = "done"
    /\ UNCHANGED <<config, totals, fs, i, j, doc, opened, logged, saved, last>>

Next == NoFiles \/ DryRunSkip \/ OpenFile \/ ApplyModifier \/ SaveFile \/ Finish

Spec == Init /\ [][Next]_vars

\* ------------------------------------------------------------------ claims
Range(seq) == {seq[k] : k \in 1..Len(seq)}

Labels == {logged[k][1] : k \in 1..Len(logged)}

Entries(l) == SelectSeq(logged, LAMBDA e : e[1] = l)

IsCounter(l) == \A k \in 1..Len(Entries(l)) : Entries(l)[k][2].kind = "int"

RECURSIVE SumInts(_)
SumInts(es) == IF es = <<>> THEN 0 ELSE Head(es)[2].n + SumInts(Tail(es))

LastInfo(l) == Entries(l)[Len(Entries(l))][2]

\* the paragraphs of the document before the latest apply that a pattern
\* matches, by re.search over their text
Matching(pat) ==
    {p \in 1..Len(last.before.paras) :
        Search(pat, text_recursive(last.before.paras[p])) # NoMatch}

TraceOf(k) == {e \in Range(last.out.trace) : e.rule = k}

\* the styles the StyleImporters before place k of the pipeline insert
ImportedBefore(k) ==
    {<<modifier_configs[n].family, modifier_configs[n].style_name>> :
        n \in {m \in 1..(k - 1) :
                 /\ modifier_configs[m].cls = "StyleImporter"
                 /\ modifier_configs[m].source_file \in DOMAIN SourceFiles
                 /\ <<modifier_configs[m].family, modifier_configs[m].style_name>>
                        \in SourceFiles[modifier_configs[m].source_file].styles}}

C2_NeverOverwritesOriginal ==
    /\ \A k \in 1..Len(saved) :
          /\ saved[k].parent = files[k].parent
          /\ saved[k].name = PathStem(files[k].name) \o output_suffix
                                \o PathSuffix(files[k].name)
          /\ saved[k] \notin Range(files)
    /\ \A f \in Range(files) : fs[f] = InitialFS[f]

\* C3: a modifier's apply never raises; a failure comes back as an Error
\* entry of its logs.
C3_ApplyNeverRaises == ~last.out.raised

\* C4: a failure on one file does not end the batch: run() never stops
\* before the last file, and a run that is not a dry run ends with a
\* summary printed after the last file.
C4_FailureDoesNotAbortBatch ==
    /\ pc # "aborted"
    /\ (pc = "done" /\ files # <<>> /\ ~dry_run) =>
          /\ console # <<>>
          /\ console[Len(console)][1] = "summary"
          /\ console[Len(console)][3] = Len(files)

\* C5 as stated: totals holds, for every label logged, the sum of its
\* integer outcomes or its most recent status.
C5_TotalsSumOrLatestStatus ==
    \A l \in Labels :
        /\ l \in DOMAIN totals
        /\ totals[l] = IF IsCounter(l) THEN IntInfo(SumInts(Entries(l)))
                       ELSE LastInfo(l)

\* C5 amended: totals holds the sum of the integer outcomes of every counter
\* label logged (so a counter never decreases); a status label holds its
\* most recent outcome in styler.py and is not stored at all in editor.py.
C5_TotalsSumCounters ==
    /\ DOMAIN totals \subseteq Labels
    /\ \A l \in Labels :
          IF IsCounter(l)
          THEN l \in DOMAIN totals /\ totals[l] = IntInfo(SumInts(Entries(l)))
          ELSE IF variant = "styler"
          THEN l \in DOMAIN totals /\ totals[l] = LastInfo(l)
          ELSE l \notin DOMAIN totals

C5_Witness ==
    /\ pc = "done"
    /\ variant = "editor"
    /\ \E l \in Labels :
          /\ IsCounter(l)
          /\ Len(Entries(l)) >= 2
          /\ \A k \in 1..Len(Entries(l)) : Entries(l)[k][2].n >= 1
    /\ \E l \in Labels : ~IsCounter(l) /\ Len(Entries(l)) >= 2

\* C6: with the style a text style and one group in the pattern, every
\* matching paragraph gets spans whose text is group 1 of the rule's pattern
\* on that paragraph's own text.
C6_SpanTextIsGroupOne ==
    last.mod.cls = "RegexStyler" =>
        \A k \in 1..Len(last.mod.rules) :
            LET rule == last.mod.rules[k]
            IN (rule.pattern.kind = "grp"
                    /\ <<"text", rule.style_name>> \in last.before.styles) =>
                  \A p \in Matching(rule.pattern) :
                      \E e \in TraceOf(k) :
                          /\ e.para = p
                          /\ e.path = "span"
                          /\ e.texts = {Search(rule.pattern,
                                          text_recursive(last.before.paras[p])).g1}

\* C7: when the style is no text style of the target, an apply that returns
\* has set the paragraph style of every paragraph the pattern matches and
\* of no other, and logs the number of matching paragraphs.
C7_FallbackStylesMatchingParagraphs ==
    (last.mod.cls = "RegexStyler" /\ ~last.out.raised) =>
        LET rules == last.mod.rules
            fallback == {k \in 1..Len(rules) :
                            <<"text", rules[k].style_name>> \notin last.before.styles}
        IN /\ \A k \in fallback :
                 /\ \A p \in Matching(rules[k].pattern) :
                        \E e \in TraceOf(k) :
                            /\ e.para = p
                            /\ e.path = "paragraph"
                            /\ e.after.style = rules[k].style_name
                 /\ \A e \in TraceOf(k) : e.para \in Matching(rules[k].pattern)
                 /\ last.out.logs[k] =
                        <<AppliedLabel(rules[k].style_name),
                          IntInfo(Cardinality(Matching(rules[k].pattern)))>>
                 /\ k = Len(rules) =>
                        \A p \in Matching(rules[k].pattern) :
                            last.out.doc.paras[p].style = rules[k].style_name
           /\ \A p \in 1..Len(last.before.paras) :
                 (\A k \in 1..Len(rules) : p \notin Matching(rules[k].pattern)) =>
                     last.out.doc.paras[p] = last.before.paras[p]

C7_Witness ==
    /\ last.mod.cls = "RegexStyler"
    /\ ~last.out.raised
    /\ Len(last.mod.rules) = 1
    /\ <<"text", last.mod.rules[1].style_name>> \notin last.before.styles
    /\ Matching(last.mod.rules[1].pattern) # {}
    /\ Matching(last.mod.rules[1].pattern) # 1..Len(last.before.paras)
    /\ last.out.logs[1][2].n = Cardinality(Matching(last.mod.rules[1].pattern))

\* C8: a rule applied a second time to the document it has processed does
\* not nest spans, and leaves as many spans as its first run did.
C8_RerunDoesNotNestSpans ==
    (/\ last.index = 2
     /\ modifier_configs[1] = modifier_configs[2]
     /\ last.mod.cls = "RegexStyler"
     /\ ~last.out.raised) =>
        \A p \in 1..Len(last.out.doc.paras) :
            /\ last.out.doc.paras[p].spans = last.before.paras[p].spans
            /\ \A n \in 1..Len(last.out.doc.paras[p].nodes) :
                   Len(last.out.doc.paras[p].nodes[n].span) <= 1

\* C9: the kind under a label of totals is the kind of every outcome logged
\* under that label, and the merge never adds an integer to a stored status.
C9_TotalsKindIsFixed ==
    /\ ~last.type_error
    /\ \A k \in 1..Len(logged) :
          logged[k][1] \in DOMAIN totals =>
              totals[logged[k][1]].kind = logged[k][2].kind

C9_Witness ==
    /\ pc = "done"
    /\ variant = "styler"
    /\ \E l \in DOMAIN totals :
          totals[l].kind = "int" /\ Len(Entries(l)) >= 2
    /\ \E l \in DOMAIN totals :
          totals[l].kind = "str" /\ Len(Entries(l)) >= 2

\* C10: the modifiers of a file run in configuration order on one document,
\* so a rule with a well-formed pattern takes the span path exactly when its
\* text style is in the opened file or was inserted by a StyleImporter
\* earlier in the pipeline; otherwise it styles the paragraph, returns and
\* logs a count.
C10_SpanPathIffTextStylePresent ==
    (pc \in {"mods", "aborted"} /\ last.file = i /\ last.mod.cls = "RegexStyler") =>
        LET present(s) ==
                <<"text", s>> \in fs[files[i]].styles \cup ImportedBefore(last.index)
            rules == last.mod.rules
        IN /\ \A e \in Range(last.out.trace) :
                 /\ (e.path = "span") <=> present(e.style)
                 /\ e.path = "paragraph" => e.after.style = e.style
           /\ (\A k \in 1..Len(rules) :
                   rules[k].pattern.kind # "bad" /\ ~present(rules[k].style_name)) =>
                 /\ ~last.out.raised
                 /\ Len(last.out.logs) = Len(rules)
                 /\ \A k \in 1..Len(rules) : last.out.logs[k][2].kind = "int"

C10_Witness ==
    /\ pc \in {"mods", "aborted"}
    /\ last.file = i
    /\ last.index = 2
    /\ last.mod.cls = "RegexStyler"
    /\ modifier_configs[1] = Importer("text", "Bold", "ref")
    /\ <<"text", "Bold">> \notin fs[files[i]].styles
    /\ \E e \in Range(last.out.trace) : e.path = "span" /\ e.style = "Bold"

====
